---- MODULE Spec2Model ----
(***************************************************************************)
(* Dashboard boundary of the gateway (src/app/api/dashboard.py): the       *)
(* snapshot handler get_dashboard_data and the privileged reset_stats,     *)
(* over the three process-wide stores they read: settings.api_call_stats,  *)
(* response_cache_manager.cache, active_requests_manager.active_requests.  *)
(*                                                                         *)
(* Time is in seconds (datetime.now() and time.time() are one clock).      *)
(* A bucket label is the string strftime writes, held as the record        *)
(* [wf, h, mm]: wf says the text has the shape "Y-m-d HH:MM", h is the     *)
(* hour since the epoch that "Y-m-d HH" names, mm the two minute digits.   *)
(* usage_percent is held in hundredths of a percent (5.0 is 500), the      *)
(* precision round(x, 2) keeps.                                            *)
(*                                                                         *)
(* The store operations the handlers call live in app.utils and            *)
(* app.utils.maintenance, outside this file: update_api_call_stats,        *)
(* clean_expired_stats, api_call_stats_clean, clean_expired,               *)
(* clean_completed and verify_password follow the design document          *)
(* (sections 4.1 to 4.5).                                                  *)
(*                                                                         *)
(* History variables: events lists the recorded calls (live until a reset  *)
(* wipes them), completed the request keys whose task has finished,        *)
(* nticks the clock advances so far.  response is the value the last       *)
(* handler call returned; any other step clears it.                        *)
(***************************************************************************)
EXTENDS Integers, Sequences, FiniteSets

VARIABLES now, api_call_stats, cache, active_requests, API_KEY_DAILY_LIMIT,
          response, events, nticks, completed

vars == <<now, api_call_stats, cache, active_requests, API_KEY_DAILY_LIMIT,
          response, events, nticks, completed>>

-----------------------------------------------------------------------------
(* Bounds of the model *)
MaxEvents == 1
MaxTicks == 1
MaxCount == 2
BaseHour == 30

(* timedelta(minutes=1), timedelta(hours=1), in seconds *)
SecondsPerMinute == 60
SecondsPerHour == 3600
(* api_key[:8] *)
KeyIdLen == 8
(* round(usage_percent, 2): hundredths *)
PercentScale == 10000

K1 == <<1, 1, 1, 1, 1, 1, 1, 1, 1>>
K2 == <<2, 2, 2, 2, 2, 2, 2, 2, 1>>
K3 == <<1, 1, 1, 1, 1, 1, 1, 1, 3>>
api_keys == <<K1, K2, K3>>
Models == {"m1", "m2"}
(* the gateway path treats model names alike: one stands for them *)
RecordedModels == {"m1"}
Fingerprints == {"f1"}
CacheModels == {"m1"}
RequestKeys == {"r1", "r2"}
TickSteps == {45 * SecondsPerMinute, 25 * SecondsPerHour}
CacheTtls == {SecondsPerMinute}
DailyLimits == {-1, 0, 3, 100}
DefaultDailyLimit == 100
PASSWORD == "secret"

-----------------------------------------------------------------------------
(* Dictionaries are functions with a finite domain. *)
EmptyDict == <<>>
DictGet(d, k, default) == IF k \in DOMAIN d THEN d[k] ELSE default
DictPut(d, k, v) == [x \in DOMAIN d \cup {k} |-> IF x = k THEN v ELSE d[x]]
DictKeep(d, S) == [x \in DOMAIN d \cap S |-> d[x]]

RECURSIVE SumValues(_)
SumValues(d) ==
    IF DOMAIN d = {} THEN 0
    ELSE LET k == CHOOSE x \in DOMAIN d : TRUE
         IN d[k] + SumValues(DictKeep(d, DOMAIN d \ {k}))

RECURSIVE DictLen(_)
DictLen(d) ==
    IF DOMAIN d = {} THEN 0
    ELSE LET k == CHOOSE x \in DOMAIN d : TRUE
         IN 1 + DictLen(DictKeep(d, DOMAIN d \ {k}))

-----------------------------------------------------------------------------
(* Bucket labels *)
BadLabel == [wf |-> FALSE, h |-> 0, mm |-> 0]
FormatHour(t) == [wf |-> TRUE, h |-> t \div SecondsPerHour, mm |-> 0]
FormatMinute(t) ==
    [wf |-> TRUE, h |-> t \div SecondsPerHour,
     mm |-> (t % SecondsPerHour) \div SecondsPerMinute]

(* datetime.strptime(key, '%Y-%m-%d %H:00'): the literal ":00" must match *)
StrptimeHour(label) ==
    IF label.wf /\ label.mm = 0
    THEN [ok |-> TRUE, t |-> label.h * SecondsPerHour]
    ELSE [ok |-> FALSE, t |-> 0]

(* datetime.strptime(key, '%Y-%m-%d %H:%M') *)
StrptimeMinute(label) ==
    IF label.wf
    THEN [ok |-> TRUE, t |-> label.h * SecondsPerHour + label.mm * SecondsPerMinute]
    ELSE [ok |-> FALSE, t |-> 0]

Strptime(g, label) ==
    IF g = "minute" THEN StrptimeMinute(label) ELSE StrptimeHour(label)

-----------------------------------------------------------------------------
(* The call-statistics store (settings.api_call_stats) *)
Granularities == {"minute", "hourly", "last_24h"}
EmptyGranularity == [total |-> EmptyDict, by_endpoint |-> EmptyDict]
EmptyStats == [g \in Granularities |-> EmptyGranularity]

LabelAt(g, t) == IF g = "minute" THEN FormatMinute(t) ELSE FormatHour(t)

RecordIn(gs, label, api_key, model) ==
    LET perKey == DictGet(gs.by_endpoint, api_key, EmptyDict)
        perModel == DictGet(perKey, model, EmptyDict)
    IN [total |-> DictPut(gs.total, label, DictGet(gs.total, label, 0) + 1),
        by_endpoint |->
            DictPut(gs.by_endpoint, api_key,
                DictPut(perKey, model,
                    DictPut(perModel, label, DictGet(perModel, label, 0) + 1)))]

update_api_call_stats(stats, api_key, model, at) ==
    [g \in Granularities |-> RecordIn(stats[g], LabelAt(g, at), api_key, model)]

RetentionHorizon(g) ==
    IF g = "minute" THEN SecondsPerMinute ELSE 24 * SecondsPerHour

Stale(g, label, t) ==
    LET p == Strptime(g, label) IN p.ok /\ t - p.t > RetentionHorizon(g)

PruneBuckets(g, buckets, t) ==
    DictKeep(buckets, {l \in DOMAIN buckets : ~Stale(g, l, t)})

PruneGranularity(g, gs, t) ==
    IF "by_endpoint" \in DOMAIN gs
    THEN [total |-> PruneBuckets(g, gs.total, t),
          by_endpoint |->
              [k \in DOMAIN gs.by_endpoint |->
                  [m \in DOMAIN gs.by_endpoint[k] |->
                      PruneBuckets(g, gs.by_endpoint[k][m], t)]]]
    ELSE [total |-> PruneBuckets(g, gs.total, t)]

clean_expired_stats(stats, t) ==
    [g \in Granularities |-> PruneGranularity(g, stats[g], t)]

api_call_stats_clean == EmptyStats

-----------------------------------------------------------------------------
(* The response cache and the active-request tracker *)
CachePutEntry(c, fp, model, ttl, t) ==
    DictPut(c, fp, [expiry_time |-> t + ttl, model |-> model])

clean_expired(c, t) == DictKeep(c, {fp \in DOMAIN c : c[fp].expiry_time > t})

clean_completed(ar) == DictKeep(ar, {r \in DOMAIN ar : ~ar[r].done})

-----------------------------------------------------------------------------
(* get_dashboard_data: the windowed totals.  The loop walks the items of   *)
(* total; a label strptime rejects raises ValueError, which the except     *)
(* clause turns into `continue`.  raised reports an exception that would   *)
(* leave the loop.                                                         *)
RECURSIVE WindowLoop(_, _, _, _)
WindowLoop(g, total, since, calls) ==
    IF DOMAIN total = {} THEN [raised |-> FALSE, calls |-> calls]
    ELSE LET key == CHOOSE l \in DOMAIN total : TRUE
             rest == DictKeep(total, DOMAIN total \ {key})
             parsed == Strptime(g, key)
         IN IF ~parsed.ok THEN WindowLoop(g, rest, since, calls)
            ELSE IF parsed.t >= since
                 THEN WindowLoop(g, rest, since, calls + total[key])
                 ELSE WindowLoop(g, rest, since, calls)

(* the loop without its except clause: a ValueError leaves the handler *)
RECURSIVE WindowLoopNoExcept(_, _, _, _)
WindowLoopNoExcept(g, total, since, calls) ==
    IF DOMAIN total = {} THEN [raised |-> FALSE, calls |-> calls]
    ELSE LET key == CHOOSE l \in DOMAIN total : TRUE
             rest == DictKeep(total, DOMAIN total \ {key})
             parsed == Strptime(g, key)
         IN IF ~parsed.ok THEN [raised |-> TRUE, calls |-> calls]
            ELSE IF parsed.t >= since
                 THEN WindowLoopNoExcept(g, rest, since, calls + total[key])
                 ELSE WindowLoopNoExcept(g, rest, since, calls)

WindowCalls_NoExcept(g, total, since) == WindowLoopNoExcept(g, total, since, 0)

WindowCalls(g, total, since) == WindowLoop(g, total, since, 0)

Last24hCalls(stats) == SumValues(stats["last_24h"].total)

-----------------------------------------------------------------------------
(* get_dashboard_data: the per-key usage records *)
Min(a, b) == IF a < b THEN a ELSE b
KeyId(api_key) == SubSeq(api_key, 1, Min(Len(api_key), KeyIdLen))

(* round(x, 2) of x = num / den * 100, in hundredths, halves to even *)
RoundPercent(num, den) ==
    LET scaled == num * PercentScale
        q == scaled \div den
        r == scaled % den
    IN IF 2 * r > den THEN q + 1
       ELSE IF 2 * r < den THEN q
       ELSE IF q % 2 = 0 THEN q ELSE q + 1

UsagePercent(calls_24h, limit) ==
    IF limit > 0 THEN RoundPercent(calls_24h, limit) ELSE 0

(* model_calls taken as len(model_data) instead of sum(model_data.values()) *)
ModelStats_CountsBuckets(stats, api_key) ==
    LET last == stats["last_24h"]
    IN IF "by_endpoint" \in DOMAIN last /\ api_key \in DOMAIN last.by_endpoint
       THEN [model \in DOMAIN last.by_endpoint[api_key] |->
                DictLen(last.by_endpoint[api_key][model])]
       ELSE EmptyDict

ModelStats(stats, api_key) ==
    LET last == stats["last_24h"]
    IN IF "by_endpoint" \in DOMAIN last /\ api_key \in DOMAIN last.by_endpoint
       THEN [model \in DOMAIN last.by_endpoint[api_key] |->
                SumValues(last.by_endpoint[api_key][model])]
       ELSE EmptyDict

KeyUsage(stats, api_key, limit) ==
    LET model_stats == ModelStats(stats, api_key)
        calls_24h == SumValues(model_stats)
    IN [api_key |-> KeyId(api_key),
        calls_24h |-> calls_24h,
        limit |-> limit,
        usage_percent |-> UsagePercent(calls_24h, limit),
        model_stats |-> model_stats]

(* list.sort(key=usage_percent, reverse=True): stable, ties keep their order *)
(* a descending sort that puts a record before the records it ties with *)
InsertByUsage_Unstable(sorted, rec) ==
    LET n == Cardinality({i \in 1..Len(sorted) :
                            sorted[i].usage_percent > rec.usage_percent})
    IN SubSeq(sorted, 1, n) \o <<rec>> \o SubSeq(sorted, n + 1, Len(sorted))

InsertByUsage(sorted, rec) ==
    LET n == Cardinality({i \in 1..Len(sorted) :
                            sorted[i].usage_percent >= rec.usage_percent})
    IN SubSeq(sorted, 1, n) \o <<rec>> \o SubSeq(sorted, n + 1, Len(sorted))

RECURSIVE SortByUsageDesc(_)
SortByUsageDesc(recs) ==
    IF recs = <<>> THEN <<>>
    ELSE InsertByUsage(SortByUsageDesc(SubSeq(recs, 1, Len(recs) - 1)),
                       recs[Len(recs)])

ApiKeyStats(stats, keys, limit) ==
    SortByUsageDesc([i \in 1..Len(keys) |-> KeyUsage(stats, keys[i], limit)])

-----------------------------------------------------------------------------
(* get_dashboard_data: cache and active-request counts *)
ValidCache(c, t) == DictLen(DictKeep(c, {fp \in DOMAIN c : t < c[fp].expiry_time}))

CacheByModel(c, t) ==
    LET valid == {fp \in DOMAIN c : t < c[fp].expiry_time}
    IN [m \in {c[fp].model : fp \in valid} |->
            Cardinality({fp \in valid : c[fp].model = m})]

ActiveCount(ar) == DictLen(ar)
ActiveDone(ar) == DictLen(DictKeep(ar, {r \in DOMAIN ar : ar[r].done}))
(* the subtraction with its operands swapped *)
ActivePending_Swapped(active_count, active_done) == active_done - active_count
ActivePending(active_count, active_done) == active_count - active_done

NoResponse == [op |-> "none"]

DashboardResponse(stats, c, ar, limit, t) ==
    LET hourly == WindowCalls("hourly", stats["hourly"].total, t - SecondsPerHour)
        minute == WindowCalls("minute", stats["minute"].total, t - SecondsPerMinute)
        active_count == ActiveCount(ar)
        active_done == ActiveDone(ar)
        total_cache == DictLen(c)
        valid_cache == ValidCache(c, t)
    IN IF hourly.raised \/ minute.raised THEN [op |-> "error"]
       ELSE [op |-> "dashboard",
             key_count |-> Len(api_keys),
             last_24h_calls |-> Last24hCalls(stats),
             hourly_calls |-> hourly.calls,
             minute_calls |-> minute.calls,
             api_key_stats |-> ApiKeyStats(stats, api_keys, limit),
             cache_entries |-> total_cache,
             valid_cache |-> valid_cache,
             expired_cache |-> total_cache - valid_cache,
             cache_by_model |-> CacheByModel(c, t),
             active_count |-> active_count,
             active_done |-> active_done,
             active_pending |-> ActivePending(active_count, active_done)]

(* get_dashboard_data without the clean_completed call *)
GetDashboardData_NoSweep ==
    LET stats == clean_expired_stats(api_call_stats, now)
        c == clean_expired(cache, now)
    IN /\ api_call_stats' = stats
       /\ cache' = c
       /\ active_requests' = active_requests
       /\ response' = DashboardResponse(stats, c, active_requests,
                                        API_KEY_DAILY_LIMIT, now)
       /\ UNCHANGED <<now, API_KEY_DAILY_LIMIT, events, nticks, completed>>

(* get_dashboard_data emptying the cache instead of removing what expired *)
GetDashboardData_DropsCache ==
    LET stats == clean_expired_stats(api_call_stats, now)
        ar == clean_completed(active_requests)
    IN /\ api_call_stats' = stats
       /\ cache' = EmptyDict
       /\ active_requests' = ar
       /\ response' = DashboardResponse(stats, EmptyDict, ar, API_KEY_DAILY_LIMIT, now)
       /\ UNCHANGED <<now, API_KEY_DAILY_LIMIT, events, nticks, completed>>

GetDashboardData ==
    LET stats == clean_expired_stats(api_call_stats, now)
        c == clean_expired(cache, now)
        ar == clean_completed(active_requests)
    IN /\ api_call_stats' = stats
       /\ cache' = c
       /\ active_requests' = ar
       /\ response' = DashboardResponse(stats, c, ar, API_KEY_DAILY_LIMIT, now)
       /\ UNCHANGED <<now, API_KEY_DAILY_LIMIT, events, nticks, completed>>

-----------------------------------------------------------------------------
(* reset_stats.  A request body is [is_dict, password]; password is a JSON *)
(* value [type, s, n]: type "none" is an absent key or null.               *)
JsonNull == [type |-> "none", s |-> "", n |-> 0]
JsonStr(s) == [type |-> "str", s |-> s, n |-> 0]
JsonInt(n) == [type |-> "int", s |-> "", n |-> n]
Passwords == {JsonNull, JsonStr(""), JsonInt(0), JsonInt(7), JsonStr("wrong"), JsonStr(PASSWORD)}
PasswordData ==
    {[is_dict |-> TRUE, password |-> p] : p \in Passwords}
        \cup {[is_dict |-> FALSE, password |-> JsonNull]}

(* Python truth value of a JSON value *)
Truthy(v) ==
    \/ v.type = "str" /\ v.s # ""
    \/ v.type = "int" /\ v.n # 0

verify_password(v) == v.s = PASSWORD

HTTPException(code) == [op |-> "reset", status_code |-> code]
ResetSuccess == [op |-> "reset", status_code |-> 200]

(* reset_stats without the verify_password check *)
reset_stats_NoVerify(password_data) ==
    /\ UNCHANGED <<now, cache, active_requests, API_KEY_DAILY_LIMIT, nticks, completed>>
    /\ IF ~password_data.is_dict
       THEN response' = HTTPException(422) /\ UNCHANGED <<api_call_stats, events>>
       ELSE IF ~Truthy(password_data.password)
       THEN response' = HTTPException(400) /\ UNCHANGED <<api_call_stats, events>>
       ELSE IF password_data.password.type # "str"
       THEN response' = HTTPException(422) /\ UNCHANGED <<api_call_stats, events>>
       ELSE /\ api_call_stats' = api_call_stats_clean
            /\ events' = [i \in 1..Len(events) |-> [events[i] EXCEPT !.live = FALSE]]
            /\ response' = ResetSuccess

(* reset_stats that on success also empties the cache and the tracker *)
reset_stats_ClearsAll(password_data) ==
    /\ UNCHANGED <<now, API_KEY_DAILY_LIMIT, nticks, completed>>
    /\ IF /\ password_data.is_dict
          /\ Truthy(password_data.password)
          /\ password_data.password.type = "str"
          /\ verify_password(password_data.password)
       THEN /\ api_call_stats' = api_call_stats_clean
            /\ events' = [i \in 1..Len(events) |-> [events[i] EXCEPT !.live = FALSE]]
            /\ cache' = EmptyDict
            /\ active_requests' = EmptyDict
            /\ response' = ResetSuccess
       ELSE /\ response' = HTTPException(IF ~password_data.is_dict THEN 422
                                         ELSE IF ~Truthy(password_data.password) THEN 400
                                         ELSE IF password_data.password.type # "str" THEN 422
                                         ELSE 401)
            /\ UNCHANGED <<api_call_stats, events, cache, active_requests>>

reset_stats(password_data) ==
    /\ UNCHANGED <<now, cache, active_requests, API_KEY_DAILY_LIMIT, nticks, completed>>
    /\ IF ~password_data.is_dict
       THEN response' = HTTPException(422) /\ UNCHANGED <<api_call_stats, events>>
       ELSE IF ~Truthy(password_data.password)
       THEN response' = HTTPException(400) /\ UNCHANGED <<api_call_stats, events>>
       ELSE IF password_data.password.type # "str"
       THEN response' = HTTPException(422) /\ UNCHANGED <<api_call_stats, events>>
       ELSE IF ~verify_password(password_data.password)
       THEN response' = HTTPException(401) /\ UNCHANGED <<api_call_stats, events>>
       ELSE /\ api_call_stats' = api_call_stats_clean
            /\ events' = [i \in 1..Len(events) |-> [events[i] EXCEPT !.live = FALSE]]
            /\ response' = ResetSuccess

-----------------------------------------------------------------------------
(* The gateway request path and the clock *)
RecordCall(api_key, model) ==
    /\ Len(events) < MaxEvents
    /\ api_call_stats' = update_api_call_stats(api_call_stats, api_key, model, now)
    /\ events' = Append(events, [at |-> now, live |-> TRUE])
    /\ response' = NoResponse
    /\ UNCHANGED <<now, cache, active_requests, API_KEY_DAILY_LIMIT, nticks,
                   completed>>

CachePut(fp, model, ttl) ==
    /\ cache' = CachePutEntry(cache, fp, model, ttl, now)
    /\ response' = NoResponse
    /\ UNCHANGED <<now, api_call_stats, active_requests, API_KEY_DAILY_LIMIT,
                   events, nticks, completed>>

Register(r) ==
    /\ r \notin DOMAIN active_requests
    /\ r \notin completed
    /\ active_requests' = DictPut(active_requests, r, [done |-> FALSE])
    /\ response' = NoResponse
    /\ UNCHANGED <<now, api_call_stats, cache, API_KEY_DAILY_LIMIT, events, nticks,
                   completed>>

Complete(r) ==
    /\ r \in DOMAIN active_requests
    /\ ~active_requests[r].done
    /\ active_requests' = DictPut(active_requests, r, [done |-> TRUE])
    /\ completed' = completed \cup {r}
    /\ response' = NoResponse
    /\ UNCHANGED <<now, api_call_stats, cache, API_KEY_DAILY_LIMIT, events, nticks>>

Tick(d) ==
    /\ nticks < MaxTicks
    /\ now' = now + d
    /\ nticks' = nticks + 1
    /\ response' = NoResponse
    /\ UNCHANGED <<api_call_stats, cache, active_requests, API_KEY_DAILY_LIMIT, events,
                   completed>>

HourStart == BaseHour * SecondsPerHour
BaseTime == HourStart + 30 * SecondsPerMinute + 50

Init ==
    /\ now = BaseTime
    /\ api_call_stats = EmptyStats
    /\ cache = EmptyDict
    /\ active_requests = EmptyDict
    /\ API_KEY_DAILY_LIMIT = DefaultDailyLimit
    /\ response = NoResponse
    /\ events = <<>>
    /\ nticks = 0
    /\ completed = {}

Next ==
    \/ GetDashboardData
    \/ \E pd \in PasswordData : reset_stats(pd)
    \/ \E i \in 1..Len(api_keys), m \in RecordedModels : RecordCall(api_keys[i], m)
    \/ \E fp \in Fingerprints, m \in CacheModels, ttl \in CacheTtls : CachePut(fp, m, ttl)
    \/ \E r \in RequestKeys : Register(r)
    \/ \E r \in RequestKeys : Complete(r)
    \/ \E d \in TickSteps : Tick(d)

Spec == Init /\ [][Next]_vars

-----------------------------------------------------------------------------
(* The snapshot as a function of the store contents: the contents are      *)
(* drawn from bounded sets, the only step is the read.                     *)
DictsOver(keys, values) == UNION {[S -> values] : S \in SUBSET keys}

HourBuckets ==
    {FormatHour(HourStart), FormatHour(HourStart - SecondsPerHour),
     FormatHour(HourStart - 2 * SecondsPerHour),
     FormatHour(HourStart - 25 * SecondsPerHour),
     FormatMinute(HourStart + 5 * SecondsPerMinute), BadLabel}
MinuteBuckets ==
    {FormatMinute(HourStart), FormatMinute(HourStart - SecondsPerMinute),
     FormatMinute(HourStart - 2 * SecondsPerMinute), BadLabel}

InitWindow ==
    /\ now \in {HourStart, HourStart + 30 * SecondsPerMinute}
    /\ \E hourly \in DictsOver(HourBuckets, 1..MaxCount),
          minute \in DictsOver(MinuteBuckets, {1}) :
          api_call_stats =
              [g \in Granularities |->
                  [total |-> IF g = "hourly" THEN hourly
                             ELSE IF g = "minute" THEN minute ELSE EmptyDict,
                   by_endpoint |-> EmptyDict]]
    /\ API_KEY_DAILY_LIMIT = DefaultDailyLimit

H0 == FormatHour(HourStart)
H1 == FormatHour(HourStart - SecondsPerHour)
BucketMaps == {[l \in {H0} |-> 1], [l \in {H0} |-> 2],
               [l \in {H0, H1} |-> IF l = H0 THEN 1 ELSE 2]}
PoolKeys == {api_keys[i] : i \in 1..Len(api_keys)}

TotalsOf(by_endpoint) ==
    LET cells == {c \in PoolKeys \X Models \X {H0, H1} :
                    /\ c[1] \in DOMAIN by_endpoint
                    /\ c[2] \in DOMAIN by_endpoint[c[1]]
                    /\ c[3] \in DOMAIN by_endpoint[c[1]][c[2]]}
    IN [l \in {c[3] : c \in cells} |->
            SumValues([c \in {x \in cells : x[3] = l} |-> by_endpoint[c[1]][c[2]][c[3]]])]

InitUsage ==
    /\ now = HourStart
    /\ API_KEY_DAILY_LIMIT \in DailyLimits
    /\ \/ \E by_endpoint \in DictsOver(PoolKeys, DictsOver(Models, BucketMaps)) :
             api_call_stats =
                 [g \in Granularities |->
                     IF g = "last_24h"
                     THEN [total |-> TotalsOf(by_endpoint), by_endpoint |-> by_endpoint]
                     ELSE EmptyGranularity]
       \/ api_call_stats =
              [g \in Granularities |->
                  IF g = "last_24h" THEN [total |-> EmptyDict] ELSE EmptyGranularity]

InitRead ==
    /\ InitWindow \/ InitUsage
    /\ cache = EmptyDict
    /\ active_requests = EmptyDict
    /\ response = NoResponse
    /\ events = <<>>
    /\ nticks = 0
    /\ completed = {}

NextRead == GetDashboardData

SpecRead == InitRead /\ [][NextRead]_vars

-----------------------------------------------------------------------------
(* Properties of reset_stats *)
StatsAllEmpty(stats) ==
    \A g \in Granularities :
        stats[g].total = EmptyDict /\ stats[g].by_endpoint = EmptyDict

CredentialCorrect(pd) ==
    pd.is_dict /\ pd.password.type = "str" /\ pd.password.s = PASSWORD

RejectionCodes == {400, 401, 422}

(* C1: a reset that is rejected (body not a dict, password missing, empty  *)
(* or not a string, or the credential wrong) returns a rejection and       *)
(* leaves the call-statistics store exactly as it was; a reset with the    *)
(* correct credential succeeds and leaves all three granularities empty.   *)
C1_ResetAllOrNothing ==
    [][\A pd \in PasswordData :
          reset_stats(pd) =>
              IF CredentialCorrect(pd)
              THEN StatsAllEmpty(api_call_stats') /\ response' = ResetSuccess
              ELSE /\ api_call_stats' = api_call_stats
                   /\ response'.op = "reset"
                   /\ response'.status_code \in RejectionCodes]_vars

(* an accepted reset has emptied a store that held recorded calls *)
C1_Witness ==
    /\ response = ResetSuccess
    /\ events # <<>>
    /\ StatsAllEmpty(api_call_stats)

(* C2: on every path reset_stats leaves the response cache and the         *)
(* active-request tracker as they were.                                    *)
C2_ResetFrame ==
    [][(\E pd \in PasswordData : reset_stats(pd)) =>
          cache' = cache /\ active_requests' = active_requests]_vars

(* an accepted reset with a live cache entry and a tracked request *)
C2_Witness ==
    /\ response = ResetSuccess
    /\ cache # EmptyDict
    /\ active_requests # EmptyDict

-----------------------------------------------------------------------------
(* Properties of the active-request counts *)

(* C8: in every snapshot active_pending = active_count - active_done, with *)
(* 0 <= active_done <= active_count, and active_count counts each tracked  *)
(* task once.                                                              *)
C8_ActiveCounts ==
    response.op = "dashboard" =>
        /\ response.active_pending = response.active_count - response.active_done
        /\ response.active_done >= 0
        /\ response.active_pending >= 0
        /\ response.active_count = Cardinality(DOMAIN active_requests)

(* a snapshot that counted two tracked tasks *)
C8_Witness ==
    /\ response.op = "dashboard"
    /\ response.active_count = 2
    /\ response.active_pending = 2

(* C10: the handler sweeps completed tasks and counts without a suspension *)
(* point in between, so every snapshot reports active_done = 0 and         *)
(* active_pending = active_count.                                          *)
C10_NoDoneInSnapshot ==
    response.op = "dashboard" =>
        /\ response.active_done = 0
        /\ response.active_pending = response.active_count

(* a snapshot taken after one task completed while another still runs *)
C10_Witness ==
    /\ response.op = "dashboard"
    /\ completed # {}
    /\ response.active_count = 1
    /\ response.active_done = 0

-----------------------------------------------------------------------------
(* Frame of the snapshot read *)
KeptAsWas(before, after) ==
    \A k \in DOMAIN after : k \in DOMAIN before /\ after[k] = before[k]

BucketsPruned(g, before, after) ==
    /\ KeptAsWas(before, after)
    /\ \A l \in DOMAIN before :
          l \in DOMAIN after <=>
              ~(Strptime(g, l).ok /\ now - Strptime(g, l).t > RetentionHorizon(g))

StatsPruned(before, after) ==
    \A g \in Granularities :
        /\ BucketsPruned(g, before[g].total, after[g].total)
        /\ DOMAIN after[g].by_endpoint = DOMAIN before[g].by_endpoint
        /\ \A k \in DOMAIN before[g].by_endpoint :
              /\ DOMAIN after[g].by_endpoint[k] = DOMAIN before[g].by_endpoint[k]
              /\ \A m \in DOMAIN before[g].by_endpoint[k] :
                    BucketsPruned(g, before[g].by_endpoint[k][m],
                                  after[g].by_endpoint[k][m])

(* C9 as stated: the read leaves all three stores as they were *)
C9_ReadOnly ==
    [][GetDashboardData =>
          UNCHANGED <<api_call_stats, cache, active_requests>>]_vars

(* C9 as amended: the read changes the stores only by its three cleanup    *)
(* calls. It removes exactly the stat buckets older than their retention   *)
(* horizon, the cache entries with expiry_time <= now and the completed    *)
(* tasks; every other bucket, cache entry and task stays as it was and     *)
(* nothing is added.                                                       *)
C9_ReadOnlyCleans ==
    [][GetDashboardData =>
          /\ StatsPruned(api_call_stats, api_call_stats')
          /\ KeptAsWas(cache, cache')
          /\ \A fp \in DOMAIN cache :
                fp \in DOMAIN cache' <=> cache[fp].expiry_time > now
          /\ KeptAsWas(active_requests, active_requests')
          /\ \A r \in DOMAIN active_requests :
                r \in DOMAIN active_requests' <=> ~active_requests[r].done]_vars

(* a read that swept a completed task and kept a live cache entry, a       *)
(* pending task and a recorded bucket                                      *)
C9_Witness ==
    /\ response.op = "dashboard"
    /\ completed # {}
    /\ cache # EmptyDict
    /\ active_requests # EmptyDict
    /\ api_call_stats["last_24h"].total # EmptyDict

-----------------------------------------------------------------------------
(* Properties of the windowed totals against the calls that happened *)
CallsSince(since) ==
    Cardinality({i \in 1..Len(events) :
                    events[i].live /\ events[i].at >= since /\ events[i].at <= now})

(* C6: minute_calls is the number of calls in the last minute before now   *)
(* and hourly_calls the number of calls in the last hour before now.       *)
C6_WindowCountsMatchHistory ==
    response.op = "dashboard" =>
        /\ response.minute_calls = CallsSince(now - SecondsPerMinute)
        /\ response.hourly_calls = CallsSince(now - SecondsPerHour)

(* C5: every value in every record's model_stats is strictly positive.     *)
C5_NoZeroModelStats ==
    response.op = "dashboard" =>
        \A i \in 1..Len(response.api_key_stats) :
            \A m \in DOMAIN response.api_key_stats[i].model_stats :
                response.api_key_stats[i].model_stats[m] > 0

-----------------------------------------------------------------------------
(* Properties of the windowed totals against the store *)
InWindow(g, total, since) ==
    {l \in DOMAIN total : Strptime(g, l).ok /\ Strptime(g, l).t >= since}

Unparseable(g, total) == {l \in DOMAIN total : ~Strptime(g, l).ok}

(* C7: hourly_calls and minute_calls are the sums of exactly the buckets   *)
(* whose label parses to a time >= now - 1 hour, resp. now - 1 minute; a   *)
(* label that does not parse adds nothing and the read still answers.      *)
C7_WindowedTotals ==
    /\ response.op # "error"
    /\ response.op = "dashboard" =>
          /\ response.hourly_calls =
                SumValues(DictKeep(api_call_stats["hourly"].total,
                    InWindow("hourly", api_call_stats["hourly"].total,
                             now - SecondsPerHour)))
          /\ response.minute_calls =
                SumValues(DictKeep(api_call_stats["minute"].total,
                    InWindow("minute", api_call_stats["minute"].total,
                             now - SecondsPerMinute)))

(* a read over unparseable labels in both stores, a bucket exactly at the  *)
(* hour boundary and one before it                                         *)
C7_Witness ==
    /\ response.op = "dashboard"
    /\ Unparseable("hourly", api_call_stats["hourly"].total) # {}
    /\ Unparseable("minute", api_call_stats["minute"].total) # {}
    /\ FormatHour(now - SecondsPerHour) \in DOMAIN api_call_stats["hourly"].total
    /\ FormatHour(now - 2 * SecondsPerHour) \in DOMAIN api_call_stats["hourly"].total
    /\ now = HourStart
    /\ response.hourly_calls > 0
    /\ response.hourly_calls < SumValues(api_call_stats["hourly"].total)
    /\ response.minute_calls > 0

-----------------------------------------------------------------------------
(* Properties of the per-key usage records *)
ByEndpoint24h ==
    IF "by_endpoint" \in DOMAIN api_call_stats["last_24h"]
    THEN api_call_stats["last_24h"].by_endpoint
    ELSE EmptyDict

CellsOf(k) ==
    IF k \in DOMAIN ByEndpoint24h
    THEN UNION {{<<m, l>> : l \in DOMAIN ByEndpoint24h[k][m]} :
                    m \in DOMAIN ByEndpoint24h[k]}
    ELSE {}

CallsOf(k) == SumValues([c \in CellsOf(k) |-> ByEndpoint24h[k][c[1]][c[2]]])

PerModelOf(k) ==
    IF k \in DOMAIN ByEndpoint24h
    THEN [m \in DOMAIN ByEndpoint24h[k] |->
            SumValues([c \in {x \in CellsOf(k) : x[1] = m} |->
                          ByEndpoint24h[k][c[1]][c[2]]])]
    ELSE EmptyDict

PoolOrders ==
    {p \in [1..Len(api_keys) -> 1..Len(api_keys)] :
        \A i, j \in 1..Len(api_keys) : p[i] = p[j] => i = j}

Abs(x) == IF x < 0 THEN -x ELSE x

(* C3: api_key_stats is sorted by usage_percent descending, and records    *)
(* with equal usage_percent keep the order of the key pool.                *)
C3_RankedStable ==
    response.op = "dashboard" =>
        LET out == response.api_key_stats
            n == Len(api_keys)
        IN /\ Len(out) = n
           /\ \A i \in 1..(n - 1) : out[i].usage_percent >= out[i + 1].usage_percent
           /\ \E p \in PoolOrders :
                 /\ \A i \in 1..n :
                       /\ out[i].api_key = KeyId(api_keys[p[i]])
                       /\ out[i].calls_24h = CallsOf(api_keys[p[i]])
                 /\ \A i, j \in 1..n :
                       i < j /\ out[i].usage_percent = out[j].usage_percent
                           => p[i] < p[j]

(* the third key of the pool ranked first, the first two tied behind it in *)
(* pool order                                                              *)
C3_Witness ==
    /\ response.op = "dashboard"
    /\ response.api_key_stats[1].usage_percent > response.api_key_stats[2].usage_percent
    /\ response.api_key_stats[2].usage_percent = response.api_key_stats[3].usage_percent
    /\ response.api_key_stats[2].usage_percent > 0
    /\ response.api_key_stats[2].api_key = KeyId(K1)
    /\ response.api_key_stats[3].api_key = KeyId(K2)

ExactPercent(usage, calls, limit) ==
    IF limit <= 0 THEN usage = 0 ELSE usage * limit = calls * PercentScale

RoundedPercent(usage, calls, limit) ==
    IF limit <= 0 THEN usage = 0
    ELSE 2 * Abs(usage * limit - calls * PercentScale) <= limit

RecordsMatch(exact) ==
    LET out == response.api_key_stats
        n == Len(api_keys)
    IN /\ Len(out) = n
       /\ \E p \in PoolOrders :
             \A i \in 1..n :
                 /\ out[i].calls_24h = CallsOf(api_keys[p[i]])
                 /\ out[i].model_stats = PerModelOf(api_keys[p[i]])
                 /\ out[i].limit = API_KEY_DAILY_LIMIT
                 /\ IF exact
                    THEN ExactPercent(out[i].usage_percent, out[i].calls_24h,
                                      out[i].limit)
                    ELSE RoundedPercent(out[i].usage_percent, out[i].calls_24h,
                                        out[i].limit)

(* C4 as stated: each key's record has calls_24h the sum of its per-model  *)
(* counts, model_stats the per-model sums, and usage_percent exactly       *)
(* calls_24h / daily_limit * 100, or 0 when daily_limit <= 0.              *)
C4_UsageExact == response.op = "dashboard" => RecordsMatch(TRUE)

(* C4 as amended: usage_percent is calls_24h / daily_limit * 100 rounded   *)
(* to two decimals (the nearest hundredth), or 0 when daily_limit <= 0.    *)
C4_UsageRounded == response.op = "dashboard" => RecordsMatch(FALSE)

(* limit 100, counts {m1: 3, m2: 2}: calls_24h = 5, usage_percent = 5.0;   *)
(* beside it a key with no entry in the breakdown                          *)
C4_Witness ==
    /\ response.op = "dashboard"
    /\ \E i, j \in 1..Len(response.api_key_stats) :
          /\ response.api_key_stats[i].limit = 100
          /\ response.api_key_stats[i].model_stats = [m \in Models |-> IF m = "m1" THEN 3 ELSE 2]
          /\ response.api_key_stats[i].calls_24h = 5
          /\ response.api_key_stats[i].usage_percent = 500
          /\ response.api_key_stats[j].model_stats = EmptyDict
          /\ response.api_key_stats[j].calls_24h = 0

====
